---- MODULE Spec2Model ----
(***************************************************************************)
(* MatrixOS device-driver layer: the display/input driver contracts        *)
(* (matrixos/devices/base.py), the pygame window driver                    *)
(* (matrixos/devices/display/macos_window.py) and the driver selector      *)
(* described in section 4.4 of the specification.                          *)
(***************************************************************************)
EXTENDS Integers, Sequences, FiniteSets, TLC

\* ---------------------------------------------------------------- bounds
MaxCands == 3      \* longest candidate list handed to the selector
MaxW == 2          \* largest matrix width constructed
MaxQueue == 2      \* most native events pending in the backend queue
MaxArrived == 3    \* most native events arriving while the backend is up

\* ------------------------------------------------------------- constants
None == "none"                       \* Python None (platform, screen)
Black == <<0, 0, 0>>
Red == <<255, 0, 0>>
Colors == {Black, Red}
Platforms == {"macos", "linux"}
Priorities == {10, 90}               \* priorities of the other candidates
WindowPriority == 50
NativeEvents == {"K1", "K2", "QUIT"}
FailSteps == {"none", "set_mode", "buffer", "show"}
NoGrid == <<>>                       \* buffer = None / no window on screen
Heights == {1, 2}                    \* matrix heights constructed

VARIABLES
    \* --- the process and the one window-driver instance
    pygameInstalled,  \* the pygame package can be imported
    failStep,         \* the step of initialize() at which the backend faults
    width, height,    \* DisplayDriver.width / .height
    pygame_init,      \* pygame.get_init(): process-wide backend state
    screen,           \* self.screen
    buffer,           \* self.buffer
    displayed,        \* the frame visible in the window (NoGrid: no window)
    eventQueue,       \* pygame's event queue
    delivered,        \* what the last InputDriver.poll() returned
    last,             \* the last operation called, its arguments and outcome
    arrived,          \* the native events queued since the window came up
    reported,         \* the events poll() has returned since then, in order
    app,              \* the launcher application: its position and context
    \* --- the selector
    cands,            \* the candidate list, in declaration order
    target,           \* the platform identifier given by the caller
    selPc,            \* "start", "rank", "done"
    avail,            \* the probe result of every candidate
    pool,             \* candidates still in the pool
    tried,            \* candidates constructed and initialized, in order
    selected,         \* index of the returned candidate, 0 if none
    outcome           \* "pending", "ok", "no_driver", "fault"

drvVars == <<pygameInstalled, failStep, width, height, pygame_init,
             screen, buffer, displayed, eventQueue, delivered, last,
             arrived, reported, app>>
selVars == <<cands, target, selPc, avail, pool, tried, selected, outcome>>
vars == <<drvVars, selVars>>

\* ============================================================ the driver
\* The instance and process state an operation reads and writes, as a record;
\* ret is the operation's outcome: "None", "True", "False", or "raise" when an
\* exception leaves the method.
Drv ==
    [pygame_init |-> pygame_init, screen |-> screen, buffer |-> buffer,
     displayed |-> displayed, eventQueue |-> eventQueue, ret |-> "None"]

\* Faulty variant of the buffer creation: range(width) and range(height) swapped
BlackGrid_transposed == [y \in 0 .. width - 1 |-> [x \in 0 .. height - 1 |-> Black]]

\* line 34: height rows of width cells, all black
BlackGrid == [y \in 0 .. height - 1 |-> [x \in 0 .. width - 1 |-> Black]]

\* The cells (y, x) of the matrix that grid g lacks, and the order in which
\* the loops "for y in range(height): for x in range(width)" visit the cells
Missing(g) ==
    {p \in (0 .. height - 1) \X (0 .. width - 1) :
        p[1] \notin DOMAIN g \/ p[2] \notin DOMAIN g[p[1]]}
Before(p, q) == p[1] < q[1] \/ (p[1] = q[1] /\ p[2] < q[2])

\* Python list indexing: a negative index counts from the end.
PyIndex(i, n) == IF i < 0 THEN i + n ELSE i

\* Faulty variant of set_pixel: the guard tests only x < width and y < height
set_pixel_nolower(d, x, y, c) ==
    IF x < width /\ y < height
    THEN IF d.buffer = NoGrid
         THEN [d EXCEPT !.ret = "raise"]
         ELSE IF PyIndex(x, width) \in 0 .. width - 1
                 /\ PyIndex(y, height) \in 0 .. height - 1
              THEN [d EXCEPT !.buffer[PyIndex(y, height)][PyIndex(x, width)] = c]
              ELSE [d EXCEPT !.ret = "raise"]
    ELSE d

\* MacOSWindowDriver.set_pixel
set_pixel(d, x, y, c) ==
    IF 0 <= x /\ x < width /\ 0 <= y /\ y < height
    THEN IF d.buffer = NoGrid
         THEN [d EXCEPT !.ret = "raise"]           \* None is not subscriptable
         ELSE [d EXCEPT !.buffer[y][x] = c]
    ELSE d

\* Faulty variant of clear: only the first row is reset
clear_row0(d) ==
    IF d.buffer = NoGrid
    THEN [d EXCEPT !.ret = "raise"]
    ELSE [d EXCEPT !.buffer[0] = [x \in 0 .. width - 1 |-> Black]]

\* MacOSWindowDriver.clear: the cells are written in place, row by row; a
\* cell the buffer lacks raises IndexError and ends the loops
clear(d) ==
    IF d.buffer = NoGrid
    THEN [d EXCEPT !.ret = "raise"]                \* None is not subscriptable
    ELSE LET miss == Missing(d.buffer)
             written(y, x) ==
                 /\ y \in 0 .. height - 1 /\ x \in 0 .. width - 1
                 /\ \A q \in miss : Before(<<y, x>>, q)
         IN  [d EXCEPT
                !.buffer = [y \in DOMAIN d.buffer |->
                              [x \in DOMAIN d.buffer[y] |->
                                  IF written(y, x) THEN Black ELSE d.buffer[y][x]]],
                !.ret = IF miss = {} THEN "None" ELSE "raise"]

\* Faulty variant of show: no "if self.screen is None: return"
show_noguard(d, fault) ==
    IF ~d.pygame_init
    THEN [d EXCEPT !.ret = "raise"]
    ELSE LET e == [d EXCEPT !.eventQueue = <<>>]
         IN  IF \/ e.buffer = NoGrid \/ Missing(e.buffer) # {}
                \/ e.displayed = NoGrid
                \/ fault
             THEN [e EXCEPT !.ret = "raise"]
             ELSE [e EXCEPT !.displayed = e.buffer]

\* MacOSWindowDriver.show; fault: the backend raises while drawing or flipping
show(d, fault) ==
    IF d.screen = None THEN d
    ELSE IF ~d.pygame_init
    THEN [d EXCEPT !.ret = "raise"]                \* pygame.event.get() raises
    ELSE LET e == [d EXCEPT !.eventQueue = <<>>]   \* pygame.event.get() empties it
         IN  IF \/ e.buffer = NoGrid \/ Missing(e.buffer) # {}  \* buffer[y][x]
                \/ e.displayed = NoGrid     \* no window: the surface is dead
                \/ fault
             THEN [e EXCEPT !.ret = "raise"]
             ELSE [e EXCEPT !.displayed = e.buffer]

\* MacOSWindowDriver.cleanup
cleanup(d) ==
    IF d.pygame_init
    THEN [d EXCEPT !.pygame_init = FALSE, !.displayed = NoGrid, !.eventQueue = <<>>]
    ELSE d

\* Faulty variant of initialize: no except clause, the exception leaves it
initialize_noexcept(d, fail) ==
    LET d1 == [d EXCEPT !.pygame_init = TRUE]
        d2 == [d1 EXCEPT !.screen = "surface", !.displayed = BlackGrid]
        d3 == [d2 EXCEPT !.buffer = BlackGrid]
        d5 == show(clear(d3), fail = "show")
    IN  IF fail = "set_mode" THEN [d1 EXCEPT !.ret = "raise"]
        ELSE IF fail = "buffer" THEN [d2 EXCEPT !.ret = "raise"]
        ELSE IF d5.ret = "raise" THEN d5
        ELSE [d5 EXCEPT !.ret = "True"]

\* Faulty variant of initialize: no "return True", so it always returns a
\* false value
initialize_none(d, fail) ==
    LET d1 == [d EXCEPT !.pygame_init = TRUE]
        d2 == [d1 EXCEPT !.screen = "surface", !.displayed = BlackGrid]
        d3 == [d2 EXCEPT !.buffer = BlackGrid]
        d5 == show(clear(d3), fail = "show")
    IN  IF fail = "set_mode" THEN [d1 EXCEPT !.ret = "False"]
        ELSE IF fail = "buffer" THEN [d2 EXCEPT !.ret = "False"]
        ELSE [d5 EXCEPT !.ret = "False"]

\* Faulty variant of initialize: the except clause returns True
initialize_true(d, fail) ==
    LET d1 == [d EXCEPT !.pygame_init = TRUE]
        d2 == [d1 EXCEPT !.screen = "surface", !.displayed = BlackGrid]
        d3 == [d2 EXCEPT !.buffer = BlackGrid]
        d5 == show(clear(d3), fail = "show")
    IN  IF fail = "set_mode" THEN [d1 EXCEPT !.ret = "True"]
        ELSE IF fail = "buffer" THEN [d2 EXCEPT !.ret = "True"]
        ELSE [d5 EXCEPT !.ret = "True"]

\* Faulty variant of initialize: a buffer that exists is kept as it is,
\* neither created anew nor cleared
initialize_keepbuffer(d, fail) ==
    LET d1 == [d EXCEPT !.pygame_init = TRUE]
        d2 == [d1 EXCEPT !.screen = "surface", !.displayed = BlackGrid]
        d3 == IF d2.buffer = NoGrid THEN [d2 EXCEPT !.buffer = BlackGrid] ELSE d2
        d5 == show(d3, fail = "show")
    IN  IF fail = "set_mode" THEN [d1 EXCEPT !.ret = "False"]
        ELSE IF fail = "buffer" THEN [d2 EXCEPT !.ret = "False"]
        ELSE IF d5.ret = "raise" THEN [d5 EXCEPT !.ret = "False"]
        ELSE [d5 EXCEPT !.ret = "True"]

\* MacOSWindowDriver.initialize; fail: the step at which the backend raises
initialize(d, fail) ==
    LET d1 == [d EXCEPT !.pygame_init = TRUE]                        \* pygame.init()
        d2 == [d1 EXCEPT !.screen = "surface", !.displayed = BlackGrid] \* set_mode
        d3 == [d2 EXCEPT !.buffer = BlackGrid]                       \* line 34
        d5 == show(clear(d3), fail = "show")                         \* lines 37-38
    IN  IF fail = "set_mode" THEN [d1 EXCEPT !.ret = "False"]
        ELSE IF fail = "buffer" THEN [d2 EXCEPT !.ret = "False"]
        ELSE IF d5.ret = "raise" THEN [d5 EXCEPT !.ret = "False"]   \* except Exception
        ELSE [d5 EXCEPT !.ret = "True"]

\* InputDriver.poll: the pending events, in arrival order; the queue is drained
poll(d) == [d EXCEPT !.eventQueue = <<>>]
PollResult(d) == d.eventQueue

\* The driver's variables after an operation that ended in record d
Store(d) ==
    /\ pygame_init' = d.pygame_init
    /\ screen' = d.screen
    /\ buffer' = d.buffer
    /\ displayed' = d.displayed
    /\ eventQueue' = d.eventQueue

Call(op, x, y, c, ret) == [op |-> op, x |-> x, y |-> y, c |-> c, ret |-> ret]

\* ========================================================== the selector
\* A candidate driver type.  kind "window" is MacOSWindowDriver, whose
\* descriptor comes from its class methods; kind "other" is any other driver
\* type, whose descriptor and initialize() outcome are inputs.
WindowCand ==
    [kind |-> "window", priority |-> WindowPriority, platform |-> "macos",
     available |-> TRUE, initOK |-> TRUE]
OtherCands ==
    {c \in [kind : {"other"}, priority : Priorities, platform : Platforms \cup {None},
            available : BOOLEAN, initOK : BOOLEAN] :
        ~c.available => c.initOK}      \* initialize() of an unavailable type never runs
CandSet == OtherCands \cup {WindowCand}

\* line 8 of macos_window.py: loading the driver's module imports pygame
ModuleLoads(c) == c.kind = "window" => pygameInstalled

\* DisplayDriver.is_available / MacOSWindowDriver.is_available
is_available(c) ==
    IF c.kind = "window"
    THEN IF pygameInstalled THEN TRUE ELSE FALSE   \* except ImportError
    ELSE c.available

\* DisplayDriver.get_priority / MacOSWindowDriver.get_priority
get_priority(c) == IF c.kind = "window" THEN WindowPriority ELSE c.priority

\* Faulty variant: the window driver names another platform than its own
get_platform_preference_linux(c) == IF c.kind = "window" THEN "linux" ELSE c.platform

\* Faulty variant: the window driver does not override the base method
get_platform_preference_inherited(c) == IF c.kind = "window" THEN None ELSE c.platform

\* DisplayDriver.get_platform_preference / MacOSWindowDriver.get_platform_preference
get_platform_preference(c) == IF c.kind = "window" THEN "macos" ELSE c.platform

\* DisplayDriver.__init__ / MacOSWindowDriver.__init__: self.platform
InstancePlatform(c) == IF c.kind = "window" THEN "macos" ELSE c.platform

\* Step 1 of the selector: a probe that faults counts as unavailable
ProbeFaults(c) == ~ModuleLoads(c)
Probe(c) == IF ProbeFaults(c) THEN FALSE ELSE is_available(c)

\* Step 2: a candidate fits when it is platform-agnostic or prefers the target
Matches(c) == target # None /\ get_platform_preference(c) = target
Agnostic(c) == get_platform_preference(c) = None
PlatformFit(c) == Matches(c) \/ Agnostic(c)

\* Faulty variant of Eligible: the probe result is ignored
EligibleAll(i) == PlatformFit(cands[i])
Eligible(i) == Probe(cands[i]) /\ PlatformFit(cands[i])

\* Steps 2 and 3: candidate i ranks above candidate j
\* Faulty variant of Outranks: among equals the last declared wins
OutranksLastWins(i, j) ==
    \/ Matches(cands[i]) /\ ~Matches(cands[j])
    \/ /\ Matches(cands[i]) = Matches(cands[j])
       /\ \/ get_priority(cands[i]) > get_priority(cands[j])
          \/ get_priority(cands[i]) = get_priority(cands[j]) /\ i > j
Outranks(i, j) ==
    \/ Matches(cands[i]) /\ ~Matches(cands[j])
    \/ /\ Matches(cands[i]) = Matches(cands[j])
       /\ \/ get_priority(cands[i]) > get_priority(cands[j])
          \/ get_priority(cands[i]) = get_priority(cands[j]) /\ i < j

Top(p) == CHOOSE i \in p : \A j \in p \ {i} : Outranks(i, j)

\* Step 4: construct candidate i and call its initialize()
Initialized(i) ==
    IF cands[i].kind = "window"
    THEN initialize(Drv, failStep)
    ELSE [Drv EXCEPT !.ret = IF cands[i].initOK THEN "True" ELSE "False"]

\* After a failed initialize() the candidate leaves the pool
Remainder(p, i) == p \ {i}

Filter ==
    /\ selPc = "start"
    /\ avail' = [i \in DOMAIN cands |-> Probe(cands[i])]
    /\ pool' = {i \in DOMAIN cands : Eligible(i)}
    /\ selPc' = "rank"
    /\ UNCHANGED <<drvVars, cands, target, tried, selected, outcome>>

TryNext ==
    /\ selPc = "rank"
    /\ pool # {}
    /\ \E i \in {Top(pool)} : \E d \in {Initialized(i)} :
           /\ Store(d)
           /\ last' = IF cands[i].kind = "window"
                      THEN Call("initialize", 0, 0, Black, d.ret)
                      ELSE last
           /\ tried' = Append(tried, i)
           /\ IF d.ret = "True"
              THEN selected' = i /\ outcome' = "ok" /\ selPc' = "done"
                   /\ pool' = pool
              ELSE IF d.ret = "False"
              THEN selected' = 0 /\ outcome' = "pending" /\ selPc' = "rank"
                   /\ pool' = Remainder(pool, i)
              ELSE selected' = 0 /\ outcome' = "fault" /\ selPc' = "done"
                   /\ pool' = pool
    /\ UNCHANGED <<pygameInstalled, failStep, width, height, delivered,
                   arrived, reported, app, cands, target, avail>>

NoDriver ==
    /\ selPc = "rank"
    /\ pool = {}
    /\ outcome' = "no_driver"
    /\ selPc' = "done"
    /\ UNCHANGED <<drvVars, cands, target, avail, pool, tried, selected>>

\* The application's record when start.py is not what runs; pc is the
\* position in main(), exc the exception in flight, display and input tell
\* whether that driver was initialized, inputOpen whether the KeyboardInput
\* context is entered
NoApp ==
    [pc |-> "idle", exc |-> "none", display |-> FALSE, input |-> FALSE,
     inputOpen |-> FALSE]

\* The state after construction of the instance: MacOSWindowDriver.__init__
Constructed ==
    /\ width \in 1 .. MaxW
    /\ height \in Heights
    /\ pygame_init = FALSE
    /\ screen = None
    /\ buffer = NoGrid
    /\ displayed = NoGrid
    /\ eventQueue = <<>>
    /\ delivered = <<>>
    /\ last = Call("__init__", 0, 0, Black, "None")
    /\ arrived = <<>>
    /\ reported = <<>>
    /\ app = NoApp

HasWindow(cs) == \E i \in DOMAIN cs : cs[i].kind = "window"
OneWindow(cs) ==
    \A i, j \in DOMAIN cs : cs[i].kind = "window" /\ cs[j].kind = "window" => i = j

InitSel ==
    /\ Constructed
    /\ width = 1 /\ height = 1
    /\ cands \in UNION {[1 .. n -> CandSet] : n \in 0 .. MaxCands}
    /\ OneWindow(cands)
    /\ target \in Platforms \cup {None}
    /\ pygameInstalled \in BOOLEAN
    /\ failStep \in FailSteps
    /\ ~HasWindow(cands) => pygameInstalled /\ failStep = "none"
    /\ ~pygameInstalled => failStep = "none"
    /\ selPc = "start"
    /\ avail = <<>>
    /\ pool = {}
    /\ tried = <<>>
    /\ selected = 0
    /\ outcome = "pending"

NextSel == Filter \/ TryNext \/ NoDriver

SpecSel == InitSel /\ [][NextSel]_vars

\* ===================================================== the driver in use
\* The selector's variables when no selection is running
NoSelection ==
    /\ cands = <<>>
    /\ target = None
    /\ selPc = "done"
    /\ avail = <<>>
    /\ pool = {}
    /\ tried = <<>>
    /\ selected = 0
    /\ outcome = "pending"

Initialize(fail) ==
    \E d \in {initialize(Drv, fail)} :
        /\ Store(d)
        /\ last' = Call("initialize", 0, 0, Black, d.ret)
        /\ arrived' = d.eventQueue            \* the count starts over with the window
        /\ reported' = <<>>
        /\ UNCHANGED <<pygameInstalled, failStep, width, height, delivered,
                       app, selVars>>

SetPixel(x, y, c) ==
    \E d \in {set_pixel(Drv, x, y, c)} :
        /\ Store(d)
        /\ last' = Call("set_pixel", x, y, c, d.ret)
        /\ UNCHANGED <<pygameInstalled, failStep, width, height, delivered,
                       arrived, reported, app, selVars>>

Clear ==
    \E d \in {clear(Drv)} :
        /\ Store(d)
        /\ last' = Call("clear", 0, 0, Black, d.ret)
        /\ UNCHANGED <<pygameInstalled, failStep, width, height, delivered,
                       arrived, reported, app, selVars>>

Show(fault) ==
    \E d \in {show(Drv, fault)} :
        /\ Store(d)
        /\ last' = Call("show", 0, 0, Black, d.ret)
        /\ UNCHANGED <<pygameInstalled, failStep, width, height, delivered,
                       arrived, reported, app, selVars>>

Cleanup ==
    \E d \in {cleanup(Drv)} :
        /\ Store(d)
        /\ last' = Call("cleanup", 0, 0, Black, d.ret)
        /\ arrived' = IF pygame_init THEN <<>> ELSE arrived   \* the queue is gone
        /\ reported' = IF pygame_init THEN <<>> ELSE reported
        /\ UNCHANGED <<pygameInstalled, failStep, width, height, delivered,
                       app, selVars>>

\* The windowing system queues a native event for the open window
NativeEvent(e) ==
    /\ pygame_init /\ displayed # NoGrid
    /\ Len(eventQueue) < MaxQueue
    /\ Len(arrived) < MaxArrived
    /\ eventQueue' = Append(eventQueue, e)
    /\ arrived' = Append(arrived, e)
    /\ last' = Call("native", 0, 0, Black, "None")
    /\ UNCHANGED <<pygameInstalled, failStep, width, height, pygame_init, screen,
                   buffer, displayed, delivered, reported, app, selVars>>

Poll ==
    \E d \in {poll(Drv)} :
        /\ Store(d)
        /\ delivered' = PollResult(Drv)
        /\ reported' = reported \o PollResult(Drv)
        /\ last' = Call("poll", 0, 0, Black, d.ret)
        /\ UNCHANGED <<pygameInstalled, failStep, width, height, arrived, app, selVars>>

\* Rendering: one driver instance, called from one render thread
InitDrv ==
    /\ Constructed
    /\ pygameInstalled = TRUE
    /\ failStep = "none"
    /\ NoSelection

NextDrv ==
    \/ \E fail \in FailSteps : Initialize(fail)
    \/ \E x \in -1 .. MaxW, y \in -1 .. 2, c \in Colors : SetPixel(x, y, c)
    \/ Clear
    \/ \E fault \in BOOLEAN : Show(fault)
    \/ Cleanup

SpecDrv == InitDrv /\ [][NextDrv]_vars

\* Events: the window driver's show() and the input driver's poll() share
\* the backend's event queue
InitEvt ==
    /\ Constructed
    /\ width = 1 /\ height = 1
    /\ pygameInstalled = TRUE
    /\ failStep = "none"
    /\ NoSelection

\* The backend is healthy once the window is open: initialize() succeeds or
\* fails to open the window, and show() draws without a fault
NextEvt ==
    \/ \E fail \in {"none", "set_mode"} : Initialize(fail)
    \/ Show(FALSE)
    \/ Cleanup
    \/ \E e \in NativeEvents : NativeEvent(e)
    \/ Poll

SpecEvt == InitEvt /\ [][NextEvt]_vars

\* ====================================================== the application
\* start.py: main() and the handlers around it. app.pc is the position in
\* main(); app.display / app.input say that the display / input driver was
\* initialized; app.inputOpen that the input driver still holds its device.
AppAt(pc) == app.pc = pc

\* line 36: create_matrix builds the display: the window driver is constructed
\* and initialized; without a usable driver the call raises
AppCreateMatrix(fail) ==
    \E d \in {initialize(Drv, fail)} :
        /\ AppAt("idle")
        /\ Store(d)
        /\ last' = Call("initialize", 0, 0, Black, d.ret)
        /\ arrived' = d.eventQueue
        /\ reported' = <<>>
        /\ app' = IF d.ret = "True"
                  THEN [app EXCEPT !.pc = "matrix", !.display = TRUE]
                  ELSE [app EXCEPT !.pc = "handler", !.exc = "Exception"]
        /\ UNCHANGED <<pygameInstalled, failStep, width, height, delivered, selVars>>

\* line 42: "with KeyboardInput() as input_handler": __enter__ initializes the
\* input driver; when it raises, the body and __exit__ are skipped
AppEnterInput(ok) ==
    /\ AppAt("matrix")
    /\ app' = IF ok
              THEN [app EXCEPT !.pc = "launcher", !.input = TRUE, !.inputOpen = TRUE]
              ELSE [app EXCEPT !.pc = "handler", !.exc = "Exception"]
    /\ last' = Call("__enter__", 0, 0, Black, IF ok THEN "None" ELSE "raise")
    /\ UNCHANGED <<pygameInstalled, failStep, width, height, pygame_init, screen,
                   buffer, displayed, eventQueue, delivered, arrived, reported,
                   selVars>>

\* lines 44-50: the launcher is built; with no apps main() returns from inside
\* the with block, and an exception leaves it: both run __exit__ of the input
\* driver, and nothing else
AppLauncher(how) ==
    /\ AppAt("launcher")
    /\ app' = CASE how = "apps" -> [app EXCEPT !.pc = "running"]
                [] how = "noapps" -> [app EXCEPT !.pc = "exited", !.inputOpen = FALSE]
                [] OTHER -> [app EXCEPT !.pc = "handler", !.exc = how,
                                        !.inputOpen = FALSE]
    /\ last' = Call("Launcher", 0, 0, Black, IF how = "Exception" THEN "raise" ELSE "None")
    /\ UNCHANGED <<pygameInstalled, failStep, width, height, pygame_init, screen,
                   buffer, displayed, eventQueue, delivered, arrived, reported,
                   selVars>>

\* line 57: launcher.run() ends: it returns (the with block is left and the
\* exit banner printed) or an exception leaves it through __exit__
AppRunEnds(how) ==
    /\ AppAt("running")
    /\ app' = IF how = "return"
              THEN [app EXCEPT !.pc = "exited", !.inputOpen = FALSE]
              ELSE [app EXCEPT !.pc = "handler", !.exc = how, !.inputOpen = FALSE]
    /\ last' = Call("run", 0, 0, Black, IF how = "return" THEN "None" ELSE "raise")
    /\ UNCHANGED <<pygameInstalled, failStep, width, height, pygame_init, screen,
                   buffer, displayed, eventQueue, delivered, arrived, reported,
                   selVars>>

\* lines 68-73: the handlers print and the process ends
AppHandler ==
    /\ AppAt("handler")
    /\ app' = [app EXCEPT !.pc = "exited"]
    /\ last' = Call("except", 0, 0, Black, "None")
    /\ UNCHANGED <<pygameInstalled, failStep, width, height, pygame_init, screen,
                   buffer, displayed, eventQueue, delivered, arrived, reported,
                   selVars>>

InitApp ==
    /\ Constructed
    /\ width = 1 /\ height = 1
    /\ pygameInstalled = TRUE
    /\ failStep = "none"
    /\ NoSelection

\* While launcher.run() runs, the apps draw, show and poll, and events arrive
NextApp ==
    \/ \E fail \in FailSteps : AppCreateMatrix(fail)
    \/ \E ok \in BOOLEAN : AppEnterInput(ok)
    \/ \E how \in {"apps", "noapps", "Exception"} : AppLauncher(how)
    \/ AppAt("running") /\ \E c \in Colors : SetPixel(0, 0, c)
    \/ AppAt("running") /\ Show(FALSE)
    \/ AppAt("running") /\ Poll
    \/ AppAt("running") /\ \E e \in NativeEvents : NativeEvent(e)
    \/ \E how \in {"return", "KeyboardInterrupt", "Exception"} : AppRunEnds(how)
    \/ AppHandler

SpecApp == InitApp /\ [][NextApp]_vars

\* ================================================== properties: selector
TriedSet == {tried[k] : k \in DOMAIN tried}
Done == selPc = "done"
\* initialize() of candidate i runs to its end
InitSucceeds(i) ==
    IF cands[i].kind = "window" THEN failStep = "none" ELSE cands[i].initOK
\* the driver instance holds its backend, its window and its buffer
Live(i) ==
    cands[i].kind = "window" =>
        pygame_init /\ screen # None /\ buffer = BlackGrid /\ displayed = BlackGrid

\* C1: the selector never returns, and never constructs or initializes, a
\* candidate whose is_available() is false
C1_NeverUnavailable ==
    /\ selected # 0 => is_available(cands[selected])
    /\ \A i \in TriedSet : is_available(cands[i]) /\ ModuleLoads(cands[i])
    /\ \A i \in pool : is_available(cands[i])
C1_Witness ==
    /\ Done /\ selected # 0
    /\ \E j \in DOMAIN cands :
          /\ ~is_available(cands[j])
          /\ PlatformFit(cands[j])
          /\ Outranks(j, selected)

\* C2 as stated: whenever some candidate has platform P, the returned
\* candidate has platform P
C2_Original ==
    (Done /\ target # None
          /\ \E i \in DOMAIN cands : InstancePlatform(cands[i]) = target)
    => (selected # 0 /\ InstancePlatform(cands[selected]) = target)
\* C2 amended: whenever some candidate with platform P is available and its
\* initialize() succeeds, the returned candidate has platform (and platform
\* preference) P, whatever the priorities of the platform-agnostic candidates
C2_PlatformFirst ==
    (Done /\ target # None
          /\ \E i \in DOMAIN cands :
                /\ InstancePlatform(cands[i]) = target
                /\ Probe(cands[i]) /\ InitSucceeds(i))
    => /\ selected # 0
       /\ InstancePlatform(cands[selected]) = target
       /\ get_platform_preference(cands[selected]) = target
C2_Witness ==
    /\ Done /\ target # None /\ selected # 0
    /\ InstancePlatform(cands[selected]) = target
    /\ \E j \in DOMAIN cands :
          /\ Agnostic(cands[j]) /\ Probe(cands[j]) /\ InitSucceeds(j)
          /\ get_priority(cands[j]) > get_priority(cands[selected])

\* C3: every candidate the selector picks has, among the candidates then in
\* the pool with the same platform-matching status, the highest priority, and
\* among those of that priority it is the one declared first
C3_PriorityOrder ==
    \A k \in DOMAIN tried :
        \A j \in (pool \cup {tried[l] : l \in k + 1 .. Len(tried)}) \ {tried[k]} :
            Matches(cands[j]) = Matches(cands[tried[k]]) =>
                /\ get_priority(cands[tried[k]]) >= get_priority(cands[j])
                /\ get_priority(cands[tried[k]]) = get_priority(cands[j])
                     => tried[k] < j
C3_Witness ==
    /\ Done /\ selected # 0
    /\ \E j \in pool :
          /\ j > selected
          /\ Matches(cands[j]) = Matches(cands[selected])
          /\ get_priority(cands[j]) = get_priority(cands[selected])

\* C4: candidates are tried in rank order, each at most once, a candidate
\* whose initialize() fails leaves the pool, and the returned driver is the
\* highest-ranked eligible candidate whose initialize() succeeds
C4_FallThrough ==
    /\ \A k, l \in DOMAIN tried : k < l =>
          tried[k] # tried[l] /\ Outranks(tried[k], tried[l])
    /\ \A k \in DOMAIN tried :
          /\ Eligible(tried[k])
          /\ \A j \in DOMAIN cands :
                Eligible(j) /\ Outranks(j, tried[k]) => j \in TriedSet
          /\ (k < Len(tried) \/ selected = 0) =>
                ~InitSucceeds(tried[k]) /\ tried[k] \notin pool
    /\ selected # 0 =>
          /\ Done /\ selected = tried[Len(tried)]
          /\ InitSucceeds(selected)
    /\ (Done /\ selected = 0) =>
          \A j \in DOMAIN cands : Eligible(j) => j \in TriedSet
C4_Witness ==
    /\ Done /\ selected # 0 /\ Len(tried) = 3

\* C5 as stated: the selector reports failure exactly when no available
\* candidate's initialize() succeeds
C5_Original ==
    Done =>
        /\ (\E i \in DOMAIN cands : Probe(cands[i]) /\ InitSucceeds(i))
              => outcome = "ok" /\ selected # 0 /\ Live(selected)
        /\ outcome = "no_driver" <=>
              \A i \in DOMAIN cands :
                  Probe(cands[i]) => i \in TriedSet /\ ~InitSucceeds(i)
\* Steps the selection can still take: the probes, then one per pooled candidate
StepsLeft ==
    IF Done THEN 0
    ELSE IF selPc = "start" THEN Len(cands) + 2
    ELSE Cardinality(pool) + 1
\* C5 amended: selection terminates (until it is done it can take a step,
\* and every step leaves fewer steps to take); it returns a live initialized
\* instance when some available candidate that fits the platform initializes,
\* and reports "no usable driver" exactly when every such candidate was tried
\* and failed (or there was none)
C5_Terminates ==
    /\ [](Done \/ ENABLED NextSel)
    /\ [][StepsLeft' < StepsLeft]_vars
    /\ [](Done =>
          /\ outcome \in {"ok", "no_driver"}
          /\ outcome = "ok" <=> \E i \in DOMAIN cands : Eligible(i) /\ InitSucceeds(i)
          /\ outcome = "ok" => selected # 0 /\ Live(selected)
          /\ outcome = "no_driver" =>
                /\ selected = 0 /\ pool = {}
                /\ \A i \in DOMAIN cands : Eligible(i) => i \in TriedSet)
C5_Witness ==
    /\ Done /\ outcome = "no_driver" /\ Len(tried) >= 2
    /\ \E i \in TriedSet : cands[i].kind = "window"

\* C6: no fault of a probe or of initialize() escapes the selection: a probe
\* that faults makes the candidate unavailable, an initialize() that faults
\* counts as False, and the selection goes on to its end
C6_NoEscape ==
    /\ outcome # "fault"
    /\ selPc # "start" =>
          \A i \in DOMAIN cands :
              ProbeFaults(cands[i]) => ~avail[i] /\ i \notin pool /\ i \notin TriedSet
    /\ \A i \in TriedSet :
          (cands[i].kind = "window" /\ failStep # "none") =>
              last.ret = "False" /\ i \notin pool /\ selected # i
    /\ Done => outcome \in {"ok", "no_driver"}
C6_Witness ==
    /\ Done /\ outcome = "ok"
    /\ \E i \in TriedSet : cands[i].kind = "window" /\ failStep = "set_mode"

IsWindow(i) == cands[i].kind = "window"

InRange(x, y) == 0 <= x /\ x < width /\ 0 <= y /\ y < height
AllBlack(g) == \A y \in 0 .. height - 1 : \A x \in 0 .. width - 1 : g[y][x] = Black
Unheld == ~pygame_init /\ screen = None /\ buffer = NoGrid /\ displayed = NoGrid

\* C7: an initialize() that fails returns False without raising and holds no
\* resource: not the backend state, not the window, not the buffer
C7_FailedInitHoldsNothing ==
    (last.op = "initialize" /\ last.ret # "True") =>
        last.ret = "False" /\ Unheld

\* C8: once the buffer exists, set_pixel(x, y, c) in range makes cell (x, y)
\* equal to c and leaves every other cell as it was; out of range, negative
\* coordinates included, it raises nothing and leaves the buffer as it was
C8_SetPixelFrame ==
    [][(last'.op = "set_pixel" /\ buffer # NoGrid) =>
          /\ last'.ret = "None"
          /\ buffer' # NoGrid
          /\ \A y \in 0 .. height - 1 : \A x \in 0 .. width - 1 :
                buffer'[y][x] =
                    IF InRange(last'.x, last'.y) /\ x = last'.x /\ y = last'.y
                    THEN last'.c
                    ELSE buffer[y][x]
          /\ UNCHANGED <<pygame_init, screen, displayed, eventQueue>>]_vars
C8_Witness ==
    /\ last.op = "set_pixel" /\ last.ret = "None"
    /\ last.x = -1 /\ last.y = 0 /\ last.c = Red
    /\ buffer # NoGrid
    /\ \E y \in 0 .. height - 1 : \E x \in 0 .. width - 1 : buffer[y][x] = Red
    /\ \E y \in 0 .. height - 1 : \E x \in 0 .. width - 1 : buffer[y][x] = Black

\* C9: once the buffer exists, clear() leaves every cell black and shows
\* nothing: the frame in the window stays as it was
C9_ClearBlack ==
    [][(last'.op = "clear" /\ buffer # NoGrid) =>
          /\ last'.ret = "None"
          /\ buffer' # NoGrid /\ AllBlack(buffer')
          /\ UNCHANGED <<pygame_init, screen, displayed, eventQueue>>]_vars
C9_Witness ==
    /\ last.op = "clear" /\ last.ret = "None"
    /\ buffer # NoGrid /\ AllBlack(buffer)
    /\ displayed # NoGrid /\ ~AllBlack(displayed)

\* C10: show() takes no event out of the backend's queue: every event
\* pending before a show() that returns is still pending after it, for the
\* input driver's poll() to report
C10_ShowKeepsEvents ==
    [][(last'.op = "show" /\ last'.ret = "None") => eventQueue' = eventQueue]_vars

\* ==================================================== properties: events
IsPrefix(a, b) == Len(a) <= Len(b) /\ SubSeq(b, 1, Len(a)) = a
Count(e, q) == Cardinality({k \in DOMAIN q : q[k] = e})

\* C11: poll() returns at once with what is pending (nothing when nothing
\* is), and the native events are reported in arrival order, each exactly
\* once, however show() and poll() interleave: what has been reported is
\* always the first part of what arrived, and all of it after a poll()
C11_PollInOrder ==
    /\ IsPrefix(reported, arrived)
    /\ last.op = "poll" => eventQueue = <<>> /\ reported = arrived

\* C12: a native QUIT is reported by the next poll(), also when show() runs
\* in between: after a poll() every QUIT that arrived has been reported
C12_QuitSurfaced ==
    last.op = "poll" => Count("QUIT", reported) = Count("QUIT", arrived)

\* ================================================= properties: lifecycle
\* What one driver operation can change: the instance and the backend
Held == <<pygame_init, screen, buffer, displayed, eventQueue>>

\* The lifecycle states, read off the instance and the backend: no window was
\* ever opened; backend up, window open and buffer present; backend shut
\* down after a window had been opened
Uninitialized == screen = None
Ready == pygame_init /\ screen # None /\ buffer # NoGrid /\ displayed # NoGrid
Terminated == ~pygame_init /\ screen # None

\* C18: the lifecycle is Uninitialized -> Ready -> Terminated: only
\* initialize() makes the driver Ready and only from Uninitialized,
\* cleanup() makes a Ready driver Terminated, a Terminated driver never
\* becomes Ready and a Ready driver never Uninitialized
C18_Lifecycle ==
    [][/\ (~Ready /\ Ready') => (last'.op = "initialize" /\ Uninitialized)
       /\ (last'.op = "cleanup" /\ Ready) => Terminated'
       /\ Terminated => ~Ready'
       /\ Ready => ~Uninitialized']_vars

\* C13: cleanup() never fails and releases the backend (no backend state, no
\* window, no pending events); a second cleanup() changes nothing; and on an
\* instance whose initialize() never opened a window (never called, or failed)
\* it changes no state, the process-wide backend state included
C13_CleanupNoOp ==
    [][last'.op = "cleanup" =>
          /\ last'.ret = "None"
          /\ ~pygame_init' /\ displayed' = NoGrid /\ eventQueue' = <<>>
          /\ last.op = "cleanup" => UNCHANGED Held
          /\ screen = None => UNCHANGED Held]_vars

\* ============================================== properties: application
AppExited == AppAt("exited")

\* C14: on every exit path of the application cleanup() has run for every
\* driver that was initialized: when the process ends, an initialized display
\* driver has released the backend and an initialized input driver its device
C14_CleanupOnExit ==
    AppExited =>
        /\ app.display => ~pygame_init /\ displayed = NoGrid
        /\ app.input => ~app.inputOpen

\* ================================================== properties: the frame
HasShape(g) ==
    /\ DOMAIN g = 0 .. height - 1
    /\ \A y \in DOMAIN g : DOMAIN g[y] = 0 .. width - 1

\* C15: the buffer's dimensions never change: whenever the buffer exists it
\* has exactly height rows of exactly width cells, after any sequence of
\* set_pixel, clear and show calls, and width and height stay as constructed
C15_BufferShape ==
    /\ [](buffer # NoGrid => HasShape(buffer))
    /\ [][width' = width /\ height' = height]_vars
C15_Witness ==
    /\ last.op \in {"set_pixel", "clear", "show"} /\ last.ret = "None"
    /\ width # height
    /\ buffer # NoGrid /\ HasShape(buffer)
    /\ \E y \in 0 .. height - 1 : \E x \in 0 .. width - 1 : buffer[y][x] = Red

\* C16: an initialize() that succeeds returns True with the backend up and
\* the window open, leaves the buffer a height x width grid with every cell
\* black, and that black frame is the frame shown
C16_InitBlack ==
    (last.op = "initialize" /\ last.ret = "True") =>
        /\ pygame_init /\ screen # None
        /\ buffer # NoGrid /\ HasShape(buffer) /\ AllBlack(buffer)
        /\ displayed = buffer
C16_Witness ==
    /\ last.op = "initialize" /\ last.ret = "True"
    /\ width = MaxW /\ height = 1
    /\ buffer # NoGrid /\ AllBlack(buffer) /\ displayed = buffer

\* C20: show() never changes the buffer; a show() that returns on a driver
\* with a window leaves the frame in the window equal to the buffer as it was
\* at the call; and show() on a driver whose window was never created
\* (screen is None) returns without error and changes no state
C20_ShowReadsOnly ==
    [][last'.op = "show" =>
          /\ buffer' = buffer
          /\ (screen # None /\ last'.ret = "None") => displayed' = buffer
          /\ screen = None => last'.ret = "None" /\ UNCHANGED Held]_vars
C20_Witness ==
    /\ last.op = "show" /\ last.ret = "None"
    /\ screen # None /\ buffer # NoGrid /\ displayed = buffer
    /\ \E y \in 0 .. height - 1 : \E x \in 0 .. width - 1 : displayed[y][x] = Red
    /\ \E y \in 0 .. height - 1 : \E x \in 0 .. width - 1 : displayed[y][x] = Black

\* ======================================== properties: selection outcome
\* C19: when a selection ends, only the returned instance holds backend
\* resources: a candidate that was constructed and rejected because its
\* initialize() failed holds none, neither the process-wide backend state
\* nor a window nor a buffer
C19_RejectedHoldNothing ==
    Done => \A i \in TriedSet : (IsWindow(i) /\ i # selected) => Unheld

====
